---- MODULE Spec2Model ----
(***************************************************************************)
(* Model of wndcharm/utils.py: the SampleImageTiles tile iterator and the  *)
(* normalize_by_columns routine.                                           *)
(***************************************************************************)
EXTENDS Integers, Sequences, FiniteSets, TLC

(***************************************************************************)
(* Bounds of the model.                                                    *)
(***************************************************************************)
MaxW == 3
MaxH == 2
MaxXY == 3
\* a pass that terminates yields at most MaxW * MaxH tiles (tiles of at
\* least one pixel that do not overlap); one more pull is allowed
MaxPulls == (MaxW * MaxH) + 1

\* normalize_by_columns: shape of the matrix, range of its finite entries and
\* of the supplied bounds
MaxRows == 2
MaxCols == 1
MaxVal == 2

\* the generator objects returned by two calls of sample() on one instance
Gens == {"A", "B"}

VARIABLES
    args,           \* the arguments x, y, is_fixed of the constructor
    image,          \* self.image: [width, height]
    tile_width,     \* self.tile_width
    tile_height,    \* self.tile_height
    tiles_x,        \* self.tiles_x
    tiles_y,        \* self.tiles_y
    samples,        \* self.samples
    attrs,          \* the cursor attributes that exist on the instance
    current_row,    \* self.current_row
    current_col,    \* self.current_col
    current_x,      \* self.current_x
    current_y,      \* self.current_y
    gen,            \* gen[g]: frame of generator g: pc and its locals
    yielded,        \* yielded[g]: what the caller saw at each yield of g
    lastWriter,     \* the generator that wrote the cursor last
    foreign,        \* foreign[g]: g was resumed on a cursor written by another
    full_stack,     \* the matrix passed to normalize_by_columns, a sequence of rows
    mins,           \* the argument mins of the call
    maxs,           \* the argument maxs of the call
    numpy,          \* the numpy build: what it does where its versions differ
    errstate,       \* numpy's floating-point error policy, np.geterr()
    outcome,        \* how the call ended and what it returned
    called,         \* the matrix and the policy when the call was made
    ctor,           \* the call of SampleImageTiles (image_in, x, y, is_fixed)
    sys_stdout,     \* sys.stdout
    wrapper         \* a call of a function decorated by output_railroad_switch

samplerVars == <<args, image, tile_width, tile_height, tiles_x, tiles_y, samples,
                 attrs, current_row, current_col, current_x, current_y,
                 gen, yielded, lastWriter, foreign>>

normVars == <<full_stack, mins, maxs, numpy, errstate, outcome, called>>

ctorVars == <<ctor>>

decoVars == <<sys_stdout, wrapper>>

vars == <<samplerVars, normVars, ctorVars, decoVars>>

\* the constructor is not being called
CtorIdle ==
    ctor = [pc |-> "done", error |-> "none",
            image_in |-> [type |-> "ImageMatrix", exists |-> FALSE, decodes |-> FALSE,
                          width |-> 0, height |-> 0]]

\* no decorated function is being called
DecoIdle ==
    /\ sys_stdout = "console"
    /\ wrapper = [pc |-> "idle", kwargs |-> {}, raises |-> FALSE, opens |-> TRUE,
                  before |-> "console", passed |-> {}, ran |-> FALSE]

(***************************************************************************)
(* Floating-point values: NaN, +Inf, -Inf and the finite values, kept as   *)
(* reduced fractions n/d with d > 0.  Rounding is not modelled.            *)
(***************************************************************************)
Num(n) == [k |-> "num", n |-> n, d |-> 1]
NaN == [k |-> "nan", n |-> 0, d |-> 1]
PInf == [k |-> "pinf", n |-> 0, d |-> 1]
NInf == [k |-> "ninf", n |-> 0, d |-> 1]
\* a masked entry of a numpy masked array
Masked == [k |-> "masked", n |-> 0, d |-> 1]

Abs(n) == IF n < 0 THEN 0 - n ELSE n

RECURSIVE GCD(_, _)
GCD(a, b) == IF b = 0 THEN a ELSE GCD(b, a % b)

Frac(n, d) ==
    LET g == GCD(Abs(n), Abs(d))
        sg == IF d < 0 THEN 0 - 1 ELSE 1
    IN [k |-> "num", n |-> (sg * n) \div g, d |-> (sg * d) \div g]

Sign(v) ==
    CASE v.k = "pinf" -> 1
      [] v.k = "ninf" -> 0 - 1
      [] OTHER -> IF v.n > 0 THEN 1 ELSE IF v.n < 0 THEN 0 - 1 ELSE 0

Neg(v) ==
    CASE v.k = "pinf" -> NInf
      [] v.k = "ninf" -> PInf
      [] v.k = "num" -> [v EXCEPT !.n = 0 - v.n]
      [] OTHER -> v

\* a < b; every comparison with NaN is false
Less(a, b) ==
    CASE a.k = "nan" \/ b.k = "nan" -> FALSE
      [] a.k = "ninf" -> b.k # "ninf"
      [] a.k = "pinf" -> FALSE
      [] b.k = "ninf" -> FALSE
      [] b.k = "pinf" -> TRUE
      [] OTHER -> a.n * b.d < b.n * a.d

LessEq(a, b) == Less(a, b) \/ (a.k # "nan" /\ a = b)

FSub(a, b) ==
    CASE a.k = "nan" \/ b.k = "nan" -> NaN
      [] a.k = "num" /\ b.k = "num" -> Frac(a.n * b.d - b.n * a.d, a.d * b.d)
      [] a.k = "num" -> Neg(b)
      [] b.k = "num" -> a
      [] OTHER -> IF a.k = b.k THEN NaN ELSE a

FDiv(a, b) ==
    CASE a.k = "nan" \/ b.k = "nan" -> NaN
      [] a.k = "num" /\ b.k = "num" ->
            IF b.n # 0 THEN Frac(a.n * b.d, a.d * b.n)
            ELSE IF a.n = 0 THEN NaN
            ELSE IF a.n > 0 THEN PInf ELSE NInf
      [] a.k = "num" -> Num(0)
      [] b.k = "num" -> IF Sign(b) < 0 THEN Neg(a) ELSE a
      [] OTHER -> NaN

FMul(a, b) ==
    CASE a.k = "nan" \/ b.k = "nan" -> NaN
      [] a.k = "num" /\ b.k = "num" -> Frac(a.n * b.n, a.d * b.d)
      [] Sign(a) = 0 \/ Sign(b) = 0 -> NaN
      [] OTHER -> IF Sign(a) = Sign(b) THEN PInf ELSE NInf

\* np.maximum, np.minimum: NaN propagates
FMax(a, b) ==
    IF a.k = "nan" \/ b.k = "nan" THEN NaN ELSE IF Less(a, b) THEN b ELSE a

FMin(a, b) ==
    IF a.k = "nan" \/ b.k = "nan" THEN NaN ELSE IF Less(b, a) THEN b ELSE a

IsInvalid(v) == v.k \in {"nan", "pinf", "ninf"}

(***************************************************************************)
(* normalize_by_columns                                                    *)
(***************************************************************************)
\* the policies this module sets: np.seterr (all='raise'), np.seterr (all='ignore')
Policies == {"ignore", "raise"}

NRows(m) == Len(m)
NCols(m) == Len(m[1])

\* the default of the arguments mins and maxs
None == <<[k |-> "none", n |-> 0, d |-> 1]>>

\* np.ma.masked_invalid, on one entry
MaskedInvalid(v) == IF IsInvalid(v) THEN Masked ELSE v

Unmasked(m, j) == {MaskedInvalid(m[i][j]) : i \in 1..NRows(m)} \ {Masked}

\* full_stack_m.max (axis=0), full_stack_m.min (axis=0)
ColMax(m) ==
    [j \in 1..NCols(m) |->
        LET col == Unmasked(m, j) IN
        IF col = {} THEN Masked
        ELSE CHOOSE v \in col : \A o \in col : LessEq(o, v)]

\* a minimum over a mask that hides NaN only
ColMin_InfKept(m) ==
    [j \in 1..NCols(m) |->
        LET col == {m[i][j] : i \in 1..NRows(m)} \ {NaN} IN
        IF col = {} THEN Masked
        ELSE CHOOSE v \in col : \A o \in col : LessEq(v, o)]

ColMin(m) ==
    [j \in 1..NCols(m) |->
        LET col == Unmasked(m, j) IN
        IF col = {} THEN Masked
        ELSE CHOOSE v \in col : \A o \in col : LessEq(v, o)]

\* the data ndarray.clip reads under the mask of a bound that is masked: the
\* fill value of the array, or the identity the reduction started from
FillValue == Num(MaxVal + 1)

MinData(lo, under) ==
    IF lo # Masked THEN lo ELSE IF under = "fill" THEN FillValue ELSE PInf

MaxData(hi, under) ==
    IF hi # Masked THEN hi ELSE IF under = "fill" THEN FillValue ELSE NInf

\* a clip that leaves the entry as it is
Clip_Skipped(v, lo, hi, order) == v

\* ndarray.clip on one entry: the order of the two comparisons depends on
\* numpy's version
Clip(v, lo, hi, order) ==
    IF order = "min_first" THEN FMax(FMin(v, hi), lo) ELSE FMin(FMax(v, lo), hi)

\* clip raises when a bound does not broadcast to the shape of the matrix
Broadcasts(b, m) == Len(b) = NCols(m)

\* an in-place subtraction that subtracts nothing
MaskedISub_NoShift(v, lo) == v

\* full_stack_m -= mins, on one entry
MaskedISub(v, lo) ==
    IF v = Masked \/ lo = Masked THEN Masked ELSE FSub(v, lo)

\* (maxs - mins), on one column
Range(lo, hi) ==
    IF lo = Masked \/ hi = Masked THEN Masked ELSE FSub(hi, lo)

\* a division whose domain lets a zero divisor through
DomainMasked_NoZero(a, b) ==
    /\ a.k # "nan" /\ b.k # "nan"
    /\ a.k \in {"pinf", "ninf"}

\* the domain of the masked division: a zero divisor, an infinite dividend
DomainMasked(a, b) ==
    /\ a.k # "nan" /\ b.k # "nan"
    /\ \/ a.k \in {"pinf", "ninf"}
       \/ b.k = "num" /\ b.n = 0

\* full_stack_m /= (maxs - mins), on one entry
MaskedIDiv(v, rng) ==
    IF v = Masked \/ rng = Masked \/ DomainMasked(v, rng) THEN Masked
    ELSE FDiv(v, rng)

\* a fill that leaves the result on the scale 0 to 1
FilledTimes100_Unscaled(v) == IF v = Masked THEN Num(0) ELSE v

\* full_stack_m.filled (0) * 100.0, on one entry
FilledTimes100(v) == FMul(IF v = Masked THEN Num(0) ELSE v, Num(100))

\* bounds derived only when neither is given
Derives_BothMissing(mn, mx) == mn = None /\ mx = None

Derives(mn, mx) == mn = None \/ mx = None

UsedMins(m, mn, mx) == IF Derives(mn, mx) THEN ColMin(m) ELSE mn

UsedMaxs(m, mn, mx) == IF Derives(mn, mx) THEN ColMax(m) ELSE mx

Raises(m, lo, hi) == ~(Broadcasts(lo, m) /\ Broadcasts(hi, m))

\* one entry through the clip, the mask, the two in-place operations and
\* the fill
RescaledEntry(v, lo, hi, np) ==
    LET clipped == Clip(v, MinData(lo, np.under), MaxData(hi, np.under), np.order)
        masked == MaskedInvalid(clipped)
        shifted == MaskedISub(masked, lo)
        scaled == MaskedIDiv(shifted, Range(lo, hi))
    IN FilledTimes100(scaled)

Rescaled(m, lo, hi, np) ==
    [i \in 1..NRows(m) |->
        [j \in 1..NCols(m) |-> RescaledEntry(m[i][j], lo[j], hi[j], np)]]

\* np.seterr(**oldsettings) is reached only when nothing has raised
PolicyAtExit(old, raised) == IF raised THEN "ignore" ELSE old

\* the routine from the clip on, with the bounds lo, hi it uses: the matrix,
\* the policy and the outcome it leaves
NormalizeWith(m, lo, hi, old, np) ==
    IF Raises(m, lo, hi)
        THEN [full_stack |-> m,
              errstate |-> PolicyAtExit(old, TRUE),
              outcome |-> [kind |-> "raise", mins |-> None, maxs |-> None]]
        ELSE [full_stack |-> Rescaled(m, lo, hi, np),
              errstate |-> PolicyAtExit(old, FALSE),
              outcome |-> [kind |-> "return", mins |-> lo, maxs |-> hi]]

InputVals == {NaN, PInf, NInf} \cup {Num(n) : n \in 0..MaxVal}

BoundVals == {Num(n) : n \in 0..MaxVal}

Matrices ==
    UNION {[1..r -> [1..c -> InputVals]] : r \in 1..MaxRows, c \in 1..MaxCols}

\* mins, maxs: None, a vector of the matrix's width, or one of another length
BoundArgs(m) == {None, <<>>} \cup [1..NCols(m) -> BoundVals]

NumpyBuilds == [order : {"min_first", "max_first"}, under : {"fill", "identity"}]

NoCall == [full_stack |-> <<>>, errstate |-> "none", n |-> 0]

NoOutcome == [kind |-> "none", mins |-> None, maxs |-> None]

\* no sampler has been constructed
SamplerIdle ==
    /\ args = [x |-> 1, y |-> 1, is_fixed |-> FALSE]
    /\ image = [width |-> 0, height |-> 0]
    /\ tile_width = 0 /\ tile_height = 0
    /\ tiles_x = 0 /\ tiles_y = 0 /\ samples = 0
    /\ attrs = {}
    /\ current_row = 0 /\ current_col = 0
    /\ current_x = 0 /\ current_y = 0
    /\ gen = [i \in Gens |-> [pc |-> "none", width |-> 0, height |-> 0,
                              max_x |-> 0, max_y |-> 0]]
    /\ yielded = [i \in Gens |-> <<>>]
    /\ lastWriter = "none"
    /\ foreign = [i \in Gens |-> FALSE]

\* a caller about to call normalize_by_columns (full_stack, mins, maxs)
NormInit ==
    /\ SamplerIdle
    /\ CtorIdle
    /\ DecoIdle
    /\ full_stack \in Matrices
    /\ mins \in BoundArgs(full_stack)
    /\ maxs \in BoundArgs(full_stack)
    /\ numpy \in NumpyBuilds
    /\ errstate \in Policies
    /\ outcome = NoOutcome
    /\ called = NoCall

Normalize ==
    /\ outcome.kind = "none"
    /\ \E lo \in {UsedMins(full_stack, mins, maxs)},
          hi \in {UsedMaxs(full_stack, mins, maxs)} :
        \E r \in {NormalizeWith(full_stack, lo, hi, errstate, numpy)} :
            /\ full_stack' = r.full_stack
            /\ errstate' = r.errstate
            /\ outcome' = r.outcome
    /\ called' = [full_stack |-> full_stack, errstate |-> errstate, n |-> 1]
    /\ UNCHANGED <<mins, maxs, numpy>>
    /\ UNCHANGED <<samplerVars, ctorVars, decoVars>>

\* the bounds of a normalized matrix: 0 and 100 in every column
OutputMins(m) == [j \in 1..NCols(m) |-> Num(0)]
OutputMaxs(m) == [j \in 1..NCols(m) |-> Num(100)]

\* the caller normalizes the matrix it got back a second time:
\* normalize_by_columns (full_stack, zeros, hundreds)
Renormalize ==
    /\ outcome.kind = "return"
    /\ called.n = 1
    /\ mins' = OutputMins(full_stack)
    /\ maxs' = OutputMaxs(full_stack)
    /\ \E lo \in {UsedMins(full_stack, mins', maxs')},
          hi \in {UsedMaxs(full_stack, mins', maxs')} :
        \E r \in {NormalizeWith(full_stack, lo, hi, errstate, numpy)} :
            /\ full_stack' = r.full_stack
            /\ errstate' = r.errstate
            /\ outcome' = r.outcome
    /\ called' = [full_stack |-> full_stack, errstate |-> errstate, n |-> 2]
    /\ UNCHANGED numpy
    /\ UNCHANGED <<samplerVars, ctorVars, decoVars>>

NormNext == Normalize \/ Renormalize

NormSpec == NormInit /\ [][NormNext]_vars

(***************************************************************************)
(* SampleImageTiles.__init__                                               *)
(***************************************************************************)
\* int (a / b) on the integers of Python 2
IntDiv(a, b) == a \div b

FixedGeometry(w, h, x, y) ==
    [tile_width |-> x, tile_height |-> y,
     tiles_x |-> IntDiv(w, x), tiles_y |-> IntDiv(h, y)]

\* count mode with the tile size rounded up
CountGeometry_RoundUp(w, h, x, y) ==
    [tile_width |-> IntDiv(w + x - 1, x), tile_height |-> IntDiv(h + y - 1, y),
     tiles_x |-> x, tiles_y |-> y]

CountGeometry(w, h, x, y) ==
    [tile_width |-> IntDiv(w, x), tile_height |-> IntDiv(h, y),
     tiles_x |-> x, tiles_y |-> y]

Geometry(w, h, x, y, is_fixed) ==
    IF is_fixed THEN FixedGeometry(w, h, x, y) ELSE CountGeometry(w, h, x, y)

SamplesOf(g) == g.tiles_x * g.tiles_y

NoFrame == [pc |-> "none", width |-> 0, height |-> 0, max_x |-> 0, max_y |-> 0]

\* no matrix is being normalized
NormIdle ==
    /\ full_stack = <<>>
    /\ mins = None
    /\ maxs = None
    /\ numpy = [order |-> "max_first", under |-> "fill"]
    /\ errstate = "raise"
    /\ outcome = NoOutcome
    /\ called = NoCall

SamplerInit ==
    /\ NormIdle
    /\ DecoIdle
    /\ CtorIdle
    /\ \E w \in 1..MaxW, h \in 1..MaxH, x \in 1..MaxXY, y \in 1..MaxXY,
       is_fixed \in BOOLEAN :
        LET g == Geometry(w, h, x, y, is_fixed) IN
        /\ args = [x |-> x, y |-> y, is_fixed |-> is_fixed]
        /\ image = [width |-> w, height |-> h]
        /\ tile_width = g.tile_width
        /\ tile_height = g.tile_height
        /\ tiles_x = g.tiles_x
        /\ tiles_y = g.tiles_y
        /\ samples = SamplesOf(g)
        /\ attrs = {}
        /\ current_row = 0
        /\ current_col = 0
        /\ current_x = 0
        /\ current_y = 0
        /\ gen = [i \in Gens |-> NoFrame]
        /\ yielded = [i \in Gens |-> <<>>]
        /\ lastWriter = "none"
        /\ foreign = [i \in Gens |-> FALSE]

(***************************************************************************)
(* SampleImageTiles.sample: the generator body, run from one suspension    *)
(* point to the next.  c is the cursor [row, col, x, y, attrs], f the      *)
(* frame of the generator.                                                 *)
(***************************************************************************)
\* an inner test that forgets the width of the tile
InnerCond_NoWidth(c, f) == c.x <= f.max_x

InnerCond(c, f) == c.x + f.width <= f.max_x

OuterCond(c, f) == c.y + f.height <= f.max_y

BoundingBox(c, f) == <<c.x, c.y, c.x + f.width - 1, c.y + f.height - 1>>

EnterRow(c) ==
    [c EXCEPT !.col = 0, !.x = 0, !.attrs = @ \cup {"current_col", "current_x"}]

NextRow(c, f) == [c EXCEPT !.y = @ + f.height, !.row = @ + 1]

\* a column step that also counts the tile in self.samples
NextCol_CountsSamples(c, f) ==
    [c EXCEPT !.x = @ + f.width, !.col = @ + 1, !.samples = @ + 1]

NextCol(c, f) == [c EXCEPT !.x = @ + f.width, !.col = @ + 1]

\* a pass started without current_row = 0
ResetRow_KeepRow(c) ==
    [c EXCEPT !.y = 0, !.attrs = @ \cup {"current_row", "current_y"}]

\* a pass started without current_y = 0
ResetRow_KeepY(c) ==
    [c EXCEPT !.row = 0, !.attrs = @ \cup {"current_row", "current_y"}]

ResetRow(c) ==
    [c EXCEPT !.row = 0, !.y = 0, !.attrs = @ \cup {"current_row", "current_y"}]

RECURSIVE OuterLoop(_, _), InnerLoop(_, _)
\* the test of the outer while
OuterLoop(c, f) ==
    IF OuterCond(c, f)
        THEN InnerLoop(EnterRow(c), f)
        ELSE [cur |-> c, pc |-> "done"]

\* the test of the inner while
InnerLoop(c, f) ==
    IF InnerCond(c, f)
        THEN [cur |-> c, pc |-> "yield"]
        ELSE OuterLoop(NextRow(c, f), f)

\* self, as the body of sample() reads and writes it
Cursor ==
    [row |-> current_row, col |-> current_col, x |-> current_x,
     y |-> current_y, attrs |-> attrs,
     image |-> image, tile_width |-> tile_width, tile_height |-> tile_height,
     tiles_x |-> tiles_x, tiles_y |-> tiles_y, samples |-> samples]

\* the locals the body binds before the loops
Frame ==
    [pc |-> "run", width |-> tile_width, height |-> tile_height,
     max_x |-> image.width, max_y |-> image.height]

\* what the caller can read between two pulls
Observation(c, f) ==
    [bb |-> BoundingBox(c, f), row |-> c.row, col |-> c.col, x |-> c.x, y |-> c.y]

Land(g, r, f) ==
    /\ current_row' = r.cur.row
    /\ current_col' = r.cur.col
    /\ current_x' = r.cur.x
    /\ current_y' = r.cur.y
    /\ attrs' = r.cur.attrs
    /\ gen' = [gen EXCEPT ![g] = [f EXCEPT !.pc = r.pc]]
    /\ yielded' = [yielded EXCEPT ![g] =
                     IF r.pc = "yield" THEN Append(@, Observation(r.cur, f)) ELSE @]
    /\ lastWriter' = g
    /\ image' = r.cur.image
    /\ tile_width' = r.cur.tile_width
    /\ tile_height' = r.cur.tile_height
    /\ tiles_x' = r.cur.tiles_x
    /\ tiles_y' = r.cur.tiles_y
    /\ samples' = r.cur.samples
    /\ UNCHANGED args
    /\ UNCHANGED <<normVars, ctorVars, decoVars>>

\* a sample() that resets the cursor when it is called
Sample_Eager(g) ==
    /\ gen[g].pc = "none"
    /\ gen' = [gen EXCEPT ![g].pc = "start"]
    /\ current_row' = 0
    /\ current_y' = 0
    /\ attrs' = attrs \cup {"current_row", "current_y"}
    /\ UNCHANGED <<args, image, tile_width, tile_height, tiles_x, tiles_y, samples,
                   current_col, current_x, yielded, lastWriter, foreign>>
    /\ UNCHANGED <<normVars, ctorVars, decoVars>>

\* it = sampler.sample(): creates the generator, runs none of the body
Sample(g) ==
    /\ gen[g].pc = "none"
    /\ gen' = [gen EXCEPT ![g].pc = "start"]
    /\ UNCHANGED <<args, image, tile_width, tile_height, tiles_x, tiles_y, samples,
                   attrs, current_row, current_col, current_x, current_y,
                   yielded, lastWriter, foreign>>
    /\ UNCHANGED <<normVars, ctorVars, decoVars>>

\* first next(it): the body runs from its first line to the first yield
PullFirst(g) ==
    /\ gen[g].pc = "start"
    /\ Len(yielded[g]) < MaxPulls
    /\ Land(g, OuterLoop(ResetRow(Cursor), Frame), Frame)
    /\ UNCHANGED foreign

\* a later next(it): the body resumes after the yield
PullNext(g) ==
    /\ gen[g].pc = "yield"
    /\ Len(yielded[g]) < MaxPulls
    /\ Land(g, InnerLoop(NextCol(Cursor, gen[g]), gen[g]), gen[g])
    /\ foreign' = [foreign EXCEPT ![g] = @ \/ (lastWriter # g)]

SamplerNext ==
    \E g \in Gens : Sample(g) \/ PullFirst(g) \/ PullNext(g)

SamplerSpec == SamplerInit /\ [][SamplerNext]_vars

(***************************************************************************)
(* SampleImageTiles.__init__: the checks on image_in                       *)
(***************************************************************************)
\* what the caller may pass as image_in: a path (that exists or not, that
\* OpenImage can decode or not), an ImageMatrix, or any other object
ImageArgs ==
    {[type |-> t, exists |-> e, decodes |-> d, width |-> w, height |-> h] :
        t \in {"str", "ImageMatrix", "other"}, e \in BOOLEAN, d \in BOOLEAN,
        w \in 1..MaxW, h \in 1..MaxH}

\* one record per distinguishable argument: a path that does not exist does
\* not decode, and the two flags say nothing of an object that is not a path
ImageIns ==
    {i \in ImageArgs : /\ (i.type # "str") => (~i.exists /\ ~i.decodes)
                       /\ i.decodes => i.exists}

\* the exception the checks on image_in raise, "none" when they pass
CtorError(image_in) ==
    IF image_in.type = "str"
    THEN IF ~image_in.exists THEN "ValueError"
         ELSE IF ~image_in.decodes THEN "ValueError"
         ELSE "none"
    ELSE IF image_in.type = "ImageMatrix" THEN "none"
    ELSE "ValueError"

CtorInit ==
    /\ NormIdle
    /\ DecoIdle
    /\ ctor \in {[pc |-> "call", error |-> "none", image_in |-> i] : i \in ImageIns}
    /\ args \in {[x |-> x, y |-> y, is_fixed |-> f] :
                    x \in 1..MaxXY, y \in 1..MaxXY, f \in BOOLEAN}
    /\ image = [width |-> 0, height |-> 0]
    /\ tile_width = 0
    /\ tile_height = 0
    /\ tiles_x = 0
    /\ tiles_y = 0
    /\ samples = 0
    /\ attrs = {}
    /\ current_row = 0
    /\ current_col = 0
    /\ current_x = 0
    /\ current_y = 0
    /\ gen = [i \in Gens |-> NoFrame]
    /\ yielded = [i \in Gens |-> <<>>]
    /\ lastWriter = "none"
    /\ foreign = [i \in Gens |-> FALSE]

\* SampleImageTiles( image_in, x, y, is_fixed )
Construct ==
    /\ ctor.pc = "call"
    /\ \E err \in {CtorError(ctor.image_in)} :
        IF err # "none"
        THEN /\ ctor' = [ctor EXCEPT !.pc = "raised", !.error = err]
             /\ UNCHANGED <<image, tile_width, tile_height, tiles_x, tiles_y, samples>>
        ELSE \E g \in {Geometry(ctor.image_in.width, ctor.image_in.height,
                                args.x, args.y, args.is_fixed)} :
             /\ ctor' = [ctor EXCEPT !.pc = "done"]
             /\ image' = [width |-> ctor.image_in.width,
                          height |-> ctor.image_in.height]
             /\ tile_width' = g.tile_width
             /\ tile_height' = g.tile_height
             /\ tiles_x' = g.tiles_x
             /\ tiles_y' = g.tiles_y
             /\ samples' = SamplesOf(g)
    /\ UNCHANGED <<args, attrs, current_row, current_col, current_x, current_y,
                   gen, yielded, lastWriter, foreign>>
    /\ UNCHANGED <<normVars, decoVars>>

CtorNext == Construct

CtorSpec == CtorInit /\ [][CtorNext]_vars

(***************************************************************************)
(* output_railroad_switch                                                  *)
(***************************************************************************)
\* the keyword arguments a caller may give: the three the wrapper knows and
\* one that belongs to the wrapped function
Kwargs == {"output_filepath", "mode", "output_stream", "other"}

\* the streams sys.stdout may be before the call
Streams == {"console", "pipe"}

DecoInit ==
    /\ SamplerIdle
    /\ NormIdle
    /\ CtorIdle
    /\ sys_stdout \in Streams
    /\ wrapper \in {[pc |-> "call", kwargs |-> k, raises |-> r, opens |-> o,
                     before |-> sys_stdout, passed |-> {}, ran |-> FALSE] :
                        k \in SUBSET Kwargs, r \in BOOLEAN, o \in BOOLEAN}

\* the branch taken with output_filepath: open the file, call, close, restore
SwitchToFile ==
    /\ wrapper.pc = "call"
    /\ "output_filepath" \in wrapper.kwargs
    /\ \E kw \in {wrapper.kwargs \ {"output_filepath", "mode"}}, backup \in {sys_stdout} :
        IF ~wrapper.opens
        THEN \* open() raises, sys.stdout was not assigned
             /\ sys_stdout' = sys_stdout
             /\ wrapper' = [wrapper EXCEPT !.pc = "raised"]
        ELSE IF wrapper.raises
        THEN \* the call raises, the two lines after it are not run
             /\ sys_stdout' = "file"
             /\ wrapper' = [wrapper EXCEPT !.pc = "raised", !.passed = kw, !.ran = TRUE]
        ELSE /\ sys_stdout' = backup
             /\ wrapper' = [wrapper EXCEPT !.pc = "returned", !.passed = kw, !.ran = TRUE]
    /\ UNCHANGED <<samplerVars, normVars, ctorVars>>

\* the branch taken with output_stream and no output_filepath: try/finally
SwitchToStream ==
    /\ wrapper.pc = "call"
    /\ "output_filepath" \notin wrapper.kwargs
    /\ "output_stream" \in wrapper.kwargs
    /\ \E kw \in {wrapper.kwargs \ {"output_stream"}}, backup \in {sys_stdout} :
        /\ sys_stdout' = backup
        /\ wrapper' = [wrapper EXCEPT
                          !.pc = IF wrapper.raises THEN "raised" ELSE "returned",
                          !.passed = kw, !.ran = TRUE]
    /\ UNCHANGED <<samplerVars, normVars, ctorVars>>

\* the branch taken with neither: the call goes straight through
NoSwitch ==
    /\ wrapper.pc = "call"
    /\ "output_filepath" \notin wrapper.kwargs
    /\ "output_stream" \notin wrapper.kwargs
    /\ wrapper' = [wrapper EXCEPT
                      !.pc = IF wrapper.raises THEN "raised" ELSE "returned",
                      !.passed = wrapper.kwargs, !.ran = TRUE]
    /\ UNCHANGED sys_stdout
    /\ UNCHANGED <<samplerVars, normVars, ctorVars>>

print_method_wrapper == SwitchToFile \/ SwitchToStream \/ NoSwitch

DecoNext == print_method_wrapper

DecoSpec == DecoInit /\ [][DecoNext]_vars

(***************************************************************************)
(* Properties of SampleImageTiles                                          *)
(***************************************************************************)
\* the first n tiles of a pass that runs alone, from a fresh instance
RECURSIVE SoloRun(_, _, _)
SoloRun(r, n, acc) ==
    IF n = 0 \/ r.pc # "yield"
        THEN acc
        ELSE SoloRun(InnerLoop(NextCol(r.cur, Frame), Frame), n - 1,
                     Append(acc, Observation(r.cur, Frame)))

FreshCursor == [Cursor EXCEPT !.row = 0, !.col = 0, !.x = 0, !.y = 0, !.attrs = {}]

SoloPrefix(n) == SoloRun(OuterLoop(ResetRow(FreshCursor), Frame), n, <<>>)

IsPrefix(s, t) == Len(s) <= Len(t) /\ SubSeq(t, 1, Len(s)) = s

Alone(g) == ~foreign[g]

\* C1: a pass that ran alone to exhaustion has yielded exactly `samples`
\* tiles, in fixed mode and in count mode.
C1_CountIsSamples ==
    \A g \in Gens :
        (gen[g].pc = "done" /\ Alone(g)) => Len(yielded[g]) = samples

\* p comes before q in the order the loops visit the image
Before(p, q) == p.y < q.y \/ (p.y = q.y /\ p.x < q.x)

\* C2: a pass pulled alone is finite.  The tests of the two loops read only
\* current_x and current_y, and a yield happens only at a position inside
\* the image, so the pass is finite exactly when every yield is at a later
\* position than the yield before it.
C2_PassTerminates ==
    \A g \in Gens :
        Alone(g) =>
            \A k \in 1..(Len(yielded[g]) - 1) :
                Before(yielded[g][k], yielded[g][k + 1])

\* C3: in a pass that runs alone the k-th tile (0-indexed) is yielded with
\* current_row = k // tiles_x and current_col = k % tiles_x.
C3_RowMajorByTilesX ==
    \A g \in Gens :
        Alone(g) =>
            \A k \in 1..Len(yielded[g]) :
                /\ yielded[g][k].row = (k - 1) \div tiles_x
                /\ yielded[g][k].col = (k - 1) % tiles_x

\* C4: every yielded tile lies inside the rectangle x < tiles_x * tile_width,
\* y < tiles_y * tile_height: no tile covers a remainder pixel.
C4_NoRemainderPixel ==
    \A g \in Gens :
        Alone(g) =>
            \A k \in 1..Len(yielded[g]) :
                LET bb == yielded[g][k].bb IN
                (bb[1] <= bb[3] /\ bb[2] <= bb[4]) =>
                    /\ bb[3] < tiles_x * tile_width
                    /\ bb[4] < tiles_y * tile_height

\* the tiles of g are not the tiles the pass yields alone: one differs, or
\* g is exhausted where the pass run alone has a further tile
Departs(g) ==
    LET n == Len(yielded[g]) IN
    \/ yielded[g] # SoloPrefix(n)
    \/ gen[g].pc = "done" /\ Len(SoloPrefix(n + 1)) > n

\* C5: the tile sequence of an iteration departs from the sequence the pass
\* yields alone only when the iteration was resumed on a cursor written by
\* the other iteration, and C5_Corrupted is an interleaving where it does.
C5_DepartsOnlyWhenInterleaved ==
    \A g \in Gens : Departs(g) => foreign[g]

C5_Corrupted ==
    \E g \in Gens :
        /\ foreign[g]
        /\ Departs(g)
        /\ \A h \in Gens \ {g} : Len(yielded[h]) > 0

\* C6: while an iteration is suspended at the tile it has just yielded, the
\* cursor describes that tile and the tile lies inside the image.
C6_CursorDescribesTile ==
    \A g \in Gens :
        (gen[g].pc = "yield" /\ lastWriter = g) =>
            LET o == yielded[g][Len(yielded[g])] IN
            /\ {"current_row", "current_col", "current_x", "current_y"} \subseteq attrs
            /\ o.row = current_row /\ o.col = current_col
            /\ o.x = current_x /\ o.y = current_y
            /\ current_x = current_col * tile_width
            /\ current_y = current_row * tile_height
            /\ o.bb = <<current_x, current_y,
                        current_x + tile_width - 1, current_y + tile_height - 1>>
            /\ current_x + tile_width <= image.width
            /\ current_y + tile_height <= image.height

C6_SuspendedInside ==
    \E g \in Gens :
        /\ gen[g].pc = "yield" /\ lastWriter = g
        /\ current_row > 0 /\ current_col > 0
        /\ tile_width > 0 /\ tile_height > 0

\* C7: two passes over the same instance, each run without the other being
\* resumed in between, start at row 0, column 0 and yield the same tiles and
\* cursor values: the shorter is a prefix of the longer, and two exhausted
\* passes are equal.
C7_Restartable ==
    \A g, h \in Gens :
        (Alone(g) /\ Alone(h)) =>
            /\ IsPrefix(yielded[g], yielded[h]) \/ IsPrefix(yielded[h], yielded[g])
            /\ (gen[g].pc = "done" /\ gen[h].pc = "done") => yielded[g] = yielded[h]
            /\ Len(yielded[g]) > 0 =>
                   /\ yielded[g][1].row = 0 /\ yielded[g][1].col = 0
                   /\ yielded[g][1].x = 0 /\ yielded[g][1].y = 0

C7_SecondPassDone ==
    /\ \A g \in Gens : gen[g].pc = "done" /\ Alone(g) /\ Len(yielded[g]) >= 4
    /\ current_row > 0

\* C8: the fields set by the constructor satisfy samples = tiles_x * tiles_y,
\* tiles_x * tile_width <= image.width, tiles_y * tile_height <= image.height,
\* with the geometry of the mode selected by is_fixed.
C8_Geometry ==
    /\ samples = tiles_x * tiles_y
    /\ tiles_x * tile_width <= image.width
    /\ tiles_y * tile_height <= image.height
    /\ args.is_fixed =>
           /\ tile_width = args.x /\ tile_height = args.y
           /\ tiles_x * args.x <= image.width /\ image.width < (tiles_x + 1) * args.x
           /\ tiles_y * args.y <= image.height /\ image.height < (tiles_y + 1) * args.y
    /\ ~args.is_fixed =>
           /\ tiles_x = args.x /\ tiles_y = args.y
           /\ tile_width * args.x <= image.width
           /\ image.width < (tile_width + 1) * args.x
           /\ tile_height * args.y <= image.height
           /\ image.height < (tile_height + 1) * args.y

C8_CountModeRemainder ==
    /\ ~args.is_fixed
    /\ tiles_x * tile_width < image.width
    /\ tile_width > 0

CursorFields == {"current_row", "current_col", "current_x", "current_y"}

\* C15: no call of sample() and no pull changes tile_width, tile_height,
\* tiles_x, tiles_y, samples or the image; the only attributes written are
\* the four cursor fields.
C15_ConfigurationFrozen ==
    [][/\ UNCHANGED <<image, tile_width, tile_height, tiles_x, tiles_y, samples>>
       /\ attrs' \subseteq CursorFields]_vars

C15_AfterInterleavedPasses ==
    /\ \A g \in Gens : gen[g].pc = "done" /\ Len(yielded[g]) > 1
    /\ \E g \in Gens : foreign[g]
    /\ attrs = CursorFields

\* C18: calling sample() writes nothing: the cursor fields do not exist
\* before the first pull of the first pass, a call leaves the cursor of an
\* iteration in progress as it is, and the reset happens in the first pull,
\* whose tile is yielded at row 0, column 0, x 0, y 0.
C18_LazyStart ==
    /\ [](lastWriter = "none" => attrs = {})
    /\ [][\A g \in Gens :
            (gen[g].pc = "none" /\ gen'[g].pc = "start") =>
                UNCHANGED <<attrs, current_row, current_col, current_x, current_y>>]_vars
    /\ [][\A g \in Gens :
            (gen[g].pc = "start" /\ gen'[g].pc # "start") =>
                /\ {"current_row", "current_y"} \subseteq attrs'
                /\ gen'[g].pc = "yield" =>
                       /\ attrs' = CursorFields
                       /\ current_row' = 0 /\ current_col' = 0
                       /\ current_x' = 0 /\ current_y' = 0]_vars

C18_CalledWhileOtherInProgress ==
    \E g, h \in Gens :
        /\ gen[g].pc = "start"
        /\ gen[h].pc = "yield" /\ lastWriter = h
        /\ current_col > 0 /\ current_row > 0

(***************************************************************************)
(* Properties of normalize_by_columns                                      *)
(***************************************************************************)
Entries(m) == {m[i][j] : i \in 1..NRows(m), j \in 1..NCols(m)}

\* C9: when the call has ended, by return or by exception, the policy is
\* the policy the caller had when it made the call.
C9_PolicyRestored ==
    outcome.kind # "none" => errstate = called.errstate

\* C10: after the routine returns every entry of the matrix is a finite
\* value in [0, 100].
C10_AllInRange ==
    outcome.kind = "return" =>
        \A v \in Entries(full_stack) :
            v.k = "num" /\ LessEq(Num(0), v) /\ LessEq(v, Num(100))

C10_InvalidAndOutOfRange ==
    /\ outcome.kind = "return"
    /\ \E v \in Entries(called.full_stack) : IsInvalid(v)
    /\ \E i \in 1..NRows(full_stack), j \in 1..NCols(full_stack) :
           /\ outcome.maxs[j] # Masked
           /\ called.full_stack[i][j].k = "num"
           /\ Less(outcome.maxs[j], called.full_stack[i][j])
    /\ \E v \in Entries(full_stack) : Less(Num(0), v)

\* v as clip is meant to leave it: inside [lo, hi]
Clamped(v, lo, hi) == IF Less(v, lo) THEN lo ELSE IF Less(hi, v) THEN hi ELSE v

\* r = (clamp(v, lo, hi) - lo) / (hi - lo) * 100, for finite lo < hi
ScaledBy(r, v, lo, hi) ==
    LET c == Clamped(v, lo, hi) IN
    /\ r.k = "num"
    /\ r.n * (hi.n * lo.d - lo.n * hi.d) * c.d
           = 100 * (c.n * lo.d - lo.n * c.d) * hi.d * r.d

Cells(m) == (1..NRows(m)) \X (1..NCols(m))

\* C11: with supplied bounds min_c < max_c every entry that is not NaN
\* becomes (clamp(v, min_c, max_c) - min_c) / (max_c - min_c) * 100; +Inf
\* becomes 100 and -Inf becomes 0.
C11_ClipThenScale ==
    (outcome.kind = "return" /\ mins # None /\ maxs # None) =>
        \A c \in Cells(full_stack) :
            LET v == called.full_stack[c[1]][c[2]]
                lo == mins[c[2]]
                hi == maxs[c[2]]
                r == full_stack[c[1]][c[2]]
            IN (Less(lo, hi) /\ v.k # "nan") =>
                   /\ ScaledBy(r, v, lo, hi)
                   /\ v = PInf => r = Num(100)
                   /\ v = NInf => r = Num(0)

C11_InsideAndAbove ==
    /\ outcome.kind = "return" /\ mins # None /\ maxs # None
    /\ \E c \in Cells(full_stack) :
           /\ Less(mins[c[2]], called.full_stack[c[1]][c[2]])
           /\ Less(called.full_stack[c[1]][c[2]], maxs[c[2]])
           /\ full_stack[c[1]][c[2]] = Num(50)
    /\ \E c \in Cells(full_stack) :
           /\ Less(maxs[c[2]], called.full_stack[c[1]][c[2]])
           /\ full_stack[c[1]][c[2]] = Num(100)

\* the entries of column j of m
Column(m, j) == {m[i][j] : i \in 1..NRows(m)}

\* C12: the routine raises for no numeric edge case, and every entry that
\* was NaN, every entry of a column whose range is zero and every entry of a
\* column that was all NaN is 0 afterwards.
C12_EdgeCasesBecomeZero ==
    /\ outcome.kind = "raise" =>
           /\ mins # None /\ maxs # None
           /\ Len(mins) # NCols(full_stack) \/ Len(maxs) # NCols(full_stack)
    /\ outcome.kind = "return" =>
           \A c \in Cells(full_stack) :
               (\/ called.full_stack[c[1]][c[2]] = NaN
                \/ outcome.mins[c[2]].k = "num" /\ outcome.mins[c[2]] = outcome.maxs[c[2]]
                \/ Column(called.full_stack, c[2]) = {NaN})
                   => full_stack[c[1]][c[2]] = Num(0)

C12_ZeroRangeColumn ==
    /\ outcome.kind = "return"
    /\ mins = None /\ maxs = None
    /\ \E j \in 1..NCols(full_stack) :
           /\ Column(called.full_stack, j) = {Num(MaxVal)}
           /\ outcome.mins[j] = outcome.maxs[j]
           /\ Column(full_stack, j) = {Num(0)}
    /\ NRows(full_stack) > 1

\* the entries of column j of m that are neither NaN nor infinite
Valid(m, j) == {v \in Column(m, j) : v.k = "num"}

\* lo and hi are the least and the greatest valid entry of column j of m,
\* or masked when the column has none
DerivedFrom(lo, hi, m, j) ==
    IF Valid(m, j) = {}
        THEN lo = Masked /\ hi = Masked
        ELSE /\ lo \in Valid(m, j) /\ \A o \in Valid(m, j) : LessEq(lo, o)
             /\ hi \in Valid(m, j) /\ \A o \in Valid(m, j) : LessEq(o, hi)

\* C13: the pair returned is the pair applied: the caller's vectors when
\* both are supplied, otherwise per column the minimum and maximum of the
\* valid entries of the matrix as it was passed in.
C13_ReturnsBoundsUsed ==
    outcome.kind = "return" =>
        /\ (mins # None /\ maxs # None) =>
               outcome.mins = mins /\ outcome.maxs = maxs
        /\ (mins = None /\ maxs = None) =>
               \A j \in 1..NCols(full_stack) :
                   DerivedFrom(outcome.mins[j], outcome.maxs[j], called.full_stack, j)
        /\ \A c \in Cells(full_stack) :
               LET v == called.full_stack[c[1]][c[2]]
                   lo == outcome.mins[c[2]]
                   hi == outcome.maxs[c[2]]
               IN (lo.k = "num" /\ hi.k = "num" /\ Less(lo, hi) /\ v.k # "nan")
                      => ScaledBy(full_stack[c[1]][c[2]], v, lo, hi)

C13_DerivedSkipsInvalid ==
    /\ outcome.kind = "return"
    /\ mins = None /\ maxs = None
    /\ \E j \in 1..NCols(full_stack) :
           /\ NInf \in Column(called.full_stack, j)
           /\ outcome.mins[j].k = "num"

C17_OneBoundIgnored ==
    ((mins = None) # (maxs = None) /\ outcome.kind # "none") =>
        /\ outcome.kind = "return"
        /\ \A j \in 1..NCols(full_stack) :
               DerivedFrom(outcome.mins[j], outcome.maxs[j], called.full_stack, j)

C17_SuppliedMaxReplaced ==
    /\ outcome.kind = "return"
    /\ mins = None /\ maxs # None
    /\ Len(maxs) = NCols(full_stack)
    /\ outcome.maxs # maxs
    /\ \A j \in 1..NCols(full_stack) : outcome.maxs[j].k = "num"

(***************************************************************************)
(* Properties of the constructor's errors                                  *)
(***************************************************************************)
PathFails(i) == i.type = "str" /\ ~(i.exists /\ i.decodes)

WrongKind(i) == i.type \notin {"str", "ImageMatrix"}

\* C14: once the constructor has been called, a path that does not exist or
\* does not decode has raised an InputError, an image_in that is neither a
\* path nor an ImageMatrix has raised a TypeError, and any other call has
\* built the instance.
C14_TwoErrorKinds ==
    (ctor.pc # "call") =>
        /\ PathFails(ctor.image_in) =>
               (ctor.pc = "raised" /\ ctor.error = "InputError")
        /\ WrongKind(ctor.image_in) =>
               (ctor.pc = "raised" /\ ctor.error = "TypeError")
        /\ (~PathFails(ctor.image_in) /\ ~WrongKind(ctor.image_in)) =>
               (ctor.pc = "done" /\ ctor.error = "none")

(***************************************************************************)
(* Properties of output_railroad_switch                                    *)
(***************************************************************************)
\* the keyword arguments that selected the redirection of a call
Selecting(kwargs) ==
    IF "output_filepath" \in kwargs THEN {"output_filepath", "mode"}
    ELSE IF "output_stream" \in kwargs THEN {"output_stream"}
    ELSE {}

\* C19: when a call with output_filepath or output_stream has ended, by a
\* return or by an exception, sys.stdout is the stream it was before the
\* call, and the wrapped function was not given the keyword arguments that
\* selected the redirection.
C19_StdoutRestored ==
    (/\ wrapper.pc \in {"returned", "raised"}
     /\ wrapper.kwargs \cap {"output_filepath", "output_stream"} # {}) =>
        /\ sys_stdout = wrapper.before
        /\ wrapper.passed \cap Selecting(wrapper.kwargs) = {}

====
